---------------------------- MODULE Spec2Model ----------------------------
(***************************************************************************)
(* A model of gen_countdown_frames/cli.py: the colour parser               *)
(* (color_hex_to_tuple), the configuration checks of main(), the frame     *)
(* loop of main() and the frame composer (gen_timestamp_image).            *)
(*                                                                         *)
(* Conventions.                                                            *)
(*  - A Python string is a sequence of one-character strings, so that      *)
(*    formatting, padding, replacing and matching are computed.            *)
(*  - A Python value that may be None is a sequence of length <= 1:        *)
(*    <<>> is None and <<v>> is the value v.                               *)
(*  - arc_fraction is the exact rational num/den of the float the code     *)
(*    computes; pixel coordinates of the text are kept in twentieths of a  *)
(*    pixel (the border is 5% of the smaller dimension), which is exact.   *)
(***************************************************************************)
EXTENDS Integers, Sequences, FiniteSets, TLC

VARIABLES
    \* ---- main(): option values (lines 239-254) and the positional argument
    num_minutes, zeroes, enable_ring, disable_text,
    ring_height, ring_thickness, ring_color, shadow_color,
    width, height, position, baseline,
    \* ---- the loaded font: what textbbox measures with it
    font,
    \* ---- main(): locals of the frame loop (lines 368-404)
    format, num_images, filename_fmt, index, minute, second,
    \* ---- control: where main() is, and how it ended
    pc,
    \* ---- the options as given on the command line (never changed)
    argv,
    \* ---- the last call of gen_timestamp_image, the number of calls,
    \*      and the files saved so far, in the order they were saved
    frame, calls, disk,
    \* ---- color_hex_to_tuple: its argument and its outcome
    color, rgba

vars == <<num_minutes, zeroes, enable_ring, disable_text, ring_height,
          ring_thickness, ring_color, shadow_color, width, height, position,
          baseline, font, format, num_images, filename_fmt, index,
          minute, second, pc, argv, frame, calls, disk, color, rgba>>

optVars == <<num_minutes, zeroes, disable_text, shadow_color, width, height,
             position, baseline, font, argv>>
ringVars == <<enable_ring, ring_height, ring_thickness, ring_color>>
loopVars == <<format, num_images, filename_fmt, index, minute, second>>
outVars == <<frame, calls, disk>>
colorVars == <<color, rgba>>

-----------------------------------------------------------------------------
(* Bounds of the model and constants of the program.                       *)

MaxSmallMinutes == 2
MaxNegMinutes == 1
MaxRing == 6
MinRing == 2
MaxBaseline == 2
MaxDigits == 8

SecondsPerMinute == 60
MaxNumMinutes == 60
ZeroPadMinutes == 10
StartAngle == 270
FullCircle == 360
BorderDen == 20
ThicknessDen == 10
DefaultAlpha == 255

None == <<>>
Some(v) == <<v>>
IsNone(o) == o = <<>>
Val(o) == o[1]

Min(a, b) == IF a <= b THEN a ELSE b
Max(a, b) == IF a >= b THEN a ELSE b

\* Python's int(a / b) for b > 0: the quotient truncated toward zero.
TruncDiv(a, b) == IF a >= 0 THEN a \div b ELSE 0 - ((0 - a) \div b)

-----------------------------------------------------------------------------
(* Strings.                                                                *)

Digits == <<"0", "1", "2", "3", "4", "5", "6", "7", "8", "9">>
LowerHex == <<"a", "b", "c", "d", "e", "f">>
UpperHex == <<"A", "B", "C", "D", "E", "F">>

DigitChar(d) == Digits[d + 1]

RECURSIVE NatStr(_)
NatStr(n) == IF n < 10 THEN <<DigitChar(n)>>
             ELSE NatStr(n \div 10) \o <<DigitChar(n % 10)>>

\* str(n)
Str(n) == IF n < 0 THEN <<"-">> \o NatStr(0 - n) ELSE NatStr(n)

RECURSIVE Zeros(_)
Zeros(k) == IF k <= 0 THEN <<>> ELSE <<"0">> \o Zeros(k - 1)

\* "%0<w>d" % n  for n >= 0 (w = 0 is "%d")
PadZero(w, n) == Zeros(w - Len(NatStr(n))) \o NatStr(n)

\* s.replace(a, b) for one-character a and b
Replace(s, a, b) == [i \in 1..Len(s) |-> IF s[i] = a THEN b ELSE s[i]]

-----------------------------------------------------------------------------
(* color_hex_to_tuple (lines 201-211).                                     *)

IsHex(c) == \/ \E i \in 1..10 : Digits[i] = c
            \/ \E i \in 1..6 : LowerHex[i] = c
            \/ \E i \in 1..6 : UpperHex[i] = c

\* int(c, 16) for one hexadecimal digit c
HexVal(c) == IF \E i \in 1..10 : Digits[i] = c
                THEN (CHOOSE i \in 1..10 : Digits[i] = c) - 1
             ELSE IF \E i \in 1..6 : LowerHex[i] = c
                THEN (CHOOSE i \in 1..6 : LowerHex[i] = c) + 9
             ELSE (CHOOSE i \in 1..6 : UpperHex[i] = c) + 9

\* int(hex[i:i+2], 16), i zero-based
HexPair(hex, i) == 16 * HexVal(hex[i + 1]) + HexVal(hex[i + 2])

\* Python's "$": the end of the string, or just before a newline that ends it.
AtDollar(s, k) == \/ Len(s) = k
                  \/ Len(s) = k + 1 /\ s[k + 1] = "\n"

\* ([0-9a-fA-F]{2}){n} matched at the start of s and followed by "$"
PairsThenDollar(s, n) == /\ Len(s) >= 2 * n
                         /\ \A i \in 1..(2 * n) : IsHex(s[i])
                         /\ AtDollar(s, 2 * n)

\* re.match(r"^#?(([0-9a-fA-F]{2}){3,4})$", color): None, or group(1)
ReMatch(c) ==
    LET s == IF Len(c) > 0 /\ c[1] = "#" THEN Tail(c) ELSE c
    IN  IF PairsThenDollar(s, 4) THEN Some(SubSeq(s, 1, 8))
        ELSE IF PairsThenDollar(s, 3) THEN Some(SubSeq(s, 1, 6))
        ELSE None

\* The outcome of color_hex_to_tuple(c): an exception (match is None, so
\* match.group raises) or the returned tuple.
color_hex_to_tuple(c) ==
    LET match == ReMatch(c) IN
    IF IsNone(match) THEN [state |-> "raised", value |-> <<>>]
    ELSE LET hex == Val(match)
             a == IF Len(hex) > 6 THEN HexPair(hex, 6) ELSE DefaultAlpha
         IN  [state |-> "returned",
              value |-> <<HexPair(hex, 0), HexPair(hex, 2), HexPair(hex, 4), a>>]

ParseColor ==
    /\ pc = "options"
    /\ rgba.state = "unset"
    /\ rgba' = color_hex_to_tuple(color)
    /\ UNCHANGED <<optVars, ringVars, loopVars, outVars, pc, color>>

-----------------------------------------------------------------------------
(* main(): the checks made before the frame loop (lines 324-366).          *)

\* line 243: the default font colour
FontColor == <<255, 255, 255, 255>>

\* line 329
MinutesTooMany(n) == n > MaxNumMinutes

\* line 335
AnyRingOption(rh, rt, rc) == ~IsNone(rh) \/ ~IsNone(rt) \/ ~IsNone(rc)

\* line 347: int(min(width, height) * 0.8)
DefaultRingHeight(w, h) == (4 * Min(w, h)) \div 5

\* line 352: int(ring_height / 10)
DefaultRingThickness(rh) == TruncDiv(rh, ThicknessDen)

\* A faulty variant of ThicknessTooLarge: a thickness of exactly half the diameter
\* passes.
ThicknessTooLarge_Strict(rt, rh) == rt * 2 > rh

\* line 353
ThicknessTooLarge(rt, rh) == rt * 2 >= rh

\* line 359
NoVisualElement(er, dt) == ~er /\ dt

\* lines 327-332: num_minutes above 60 ends the run with a usage error
RejectMinutes ==
    /\ pc = "args"
    /\ MinutesTooMany(num_minutes)
    /\ pc' = "usage_error"
    /\ UNCHANGED <<optVars, ringVars, loopVars, outVars, colorVars>>

AcceptMinutes ==
    /\ pc = "args"
    /\ ~MinutesTooMany(num_minutes)
    /\ pc' = "ring"
    /\ UNCHANGED <<optVars, ringVars, loopVars, outVars, colorVars>>

\* The values of enable_ring, ring_height and ring_thickness after lines
\* 334-352.
ResolvedRing ==
    LET er == enable_ring \/ AnyRingOption(ring_height, ring_thickness, ring_color)
        rh == IF IsNone(ring_height) THEN DefaultRingHeight(width, height)
              ELSE Val(ring_height)
        rt == IF ~er THEN ring_thickness
              ELSE IF IsNone(ring_thickness) THEN Some(DefaultRingThickness(rh))
              ELSE ring_thickness
    IN  [enable_ring |-> er, ring_height |-> rh, ring_thickness |-> rt]

\* lines 334-354, the ring is enabled and too thick: usage error
RejectThickness ==
    /\ pc = "ring"
    /\ LET r == ResolvedRing IN
        /\ r.enable_ring
        /\ ThicknessTooLarge(Val(r.ring_thickness), r.ring_height)
        /\ enable_ring' = r.enable_ring
        /\ ring_height' = Some(r.ring_height)
        /\ ring_thickness' = r.ring_thickness
    /\ pc' = "usage_error"
    /\ UNCHANGED <<optVars, ring_color, loopVars, outVars, colorVars>>

\* lines 334-356, otherwise
ResolveRing ==
    /\ pc = "ring"
    /\ LET r == ResolvedRing IN
        /\ r.enable_ring => ~ThicknessTooLarge(Val(r.ring_thickness), r.ring_height)
        /\ enable_ring' = r.enable_ring
        /\ ring_height' = Some(r.ring_height)
        /\ ring_thickness' = r.ring_thickness
        /\ ring_color' = IF r.enable_ring /\ IsNone(ring_color) THEN Some(FontColor)
                         ELSE ring_color
    /\ pc' = "modes"
    /\ UNCHANGED <<optVars, loopVars, outVars, colorVars>>

\* lines 358-360
RejectModes ==
    /\ pc = "modes"
    /\ NoVisualElement(enable_ring, disable_text)
    /\ pc' = "usage_error"
    /\ UNCHANGED <<optVars, ringVars, loopVars, outVars, colorVars>>

AcceptModes ==
    /\ pc = "modes"
    /\ ~NoVisualElement(enable_ring, disable_text)
    /\ pc' = "font"
    /\ UNCHANGED <<optVars, ringVars, loopVars, outVars, colorVars>>

\* lines 362-366: ImageFont.truetype returns the font, or raises
LoadFont ==
    /\ pc = "font"
    /\ pc' = "setup"
    /\ UNCHANGED <<optVars, ringVars, loopVars, outVars, colorVars>>

LoadFontFails ==
    /\ pc = "font"
    /\ pc' = "usage_error"
    /\ UNCHANGED <<optVars, ringVars, loopVars, outVars, colorVars>>

-----------------------------------------------------------------------------
(* gen_timestamp_image (lines 61-198).                                     *)

Transparent == <<0, 0, 0, 0>>

\* line 343: int(font_size * 0.03)
ShadowOffset(font_size) == (3 * font_size) \div 100

\* A faulty variant of ArcPositive: an arc fraction of 0 still draws.
ArcPositive_OrZero(arc) == arc.num * arc.den >= 0

\* line 87: arc_fraction > 0
ArcPositive(arc) == arc.num * arc.den > 0

\* lines 89-107, in half pixels: the box of the circle of diameter d centred
\* on the canvas, moved by off pixels
Bbox(w, h, d, off) ==
    <<w - d + 2 * off, h - d + 2 * off, w + d + 2 * off, h + d + 2 * off>>

\* lines 110-112: 270 + 360 * arc_fraction
EndAngle(arc) ==
    [num |-> StartAngle * arc.den + FullCircle * arc.num, den |-> arc.den]

PieSlice(bbox, arc, fill) ==
    [op |-> "pieslice", bbox |-> bbox, start |-> StartAngle,
     end |-> EndAngle(arc), fill |-> fill]

\* lines 86-137: the pie slices drawn for one frame, in order
RingDraws(er, arc, sc, off, w, h, rh, rt, rc) ==
    IF er /\ ArcPositive(arc)
    THEN LET hollow == rh - 2 * Val(rt) > 0     \* inner_radius > 0
             inner == rh - 2 * Val(rt)
         IN  (IF ~IsNone(sc)
              THEN <<PieSlice(Bbox(w, h, rh, off), arc, Val(sc))>>
                   \o (IF hollow
                       THEN <<PieSlice(Bbox(w, h, inner, off), arc, Transparent)>>
                       ELSE <<>>)
              ELSE <<>>)
             \o <<PieSlice(Bbox(w, h, rh, 0), arc, Val(rc))>>
             \o (IF hollow
                 THEN <<PieSlice(Bbox(w, h, inner, 0), arc, Transparent)>>
                 ELSE <<>>)
    ELSE <<>>

\* lines 154-163 and 175, in twentieths of a pixel
TextX(pos, w, h, tw) ==
    LET border == Min(w, h)
        x == IF pos \in {"tl", "l", "bl"} THEN border
             ELSE IF pos \in {"tr", "r", "br"} THEN BorderDen * (w - tw) - border
             ELSE (BorderDen \div 2) * (w - tw)
    IN  Max(0, x)

\* A faulty variant of TextY: the vertical position is not clamped.
TextY_NoClamp(pos, w, h, th, bl) ==
    LET border == Min(w, h)
        y == IF pos \in {"tl", "t", "tr"} THEN border
             ELSE IF pos \in {"bl", "b", "br"} THEN BorderDen * (h - th) - border
             ELSE (BorderDen \div 2) * (h - th)
    IN  y - BorderDen * bl

\* lines 154, 164-172, 176 and 179, in twentieths of a pixel
TextY(pos, w, h, th, bl) ==
    LET border == Min(w, h)
        y == IF pos \in {"tl", "t", "tr"} THEN border
             ELSE IF pos \in {"bl", "b", "br"} THEN BorderDen * (h - th) - border
             ELSE (BorderDen \div 2) * (h - th)
    IN  Max(0, y) - BorderDen * bl

\* textbbox((0, 0), s, font): the width of s in the loaded font
TextWidth(s) == font.advance * Len(s)

\* lines 143-191: the text drawn for one frame, in order
TextDraws(timestamp) ==
    IF ~disable_text
    THEN LET x == TextX(position, width, height, TextWidth(timestamp))
             y == TextY(position, width, height, font.height, baseline)
             off == BorderDen * ShadowOffset(font.size)
         IN  (IF ~IsNone(shadow_color)
              THEN <<[op |-> "text", x |-> x + off, y |-> y + off,
                      text |-> timestamp, fill |-> Val(shadow_color)]>>
              ELSE <<>>)
             \o <<[op |-> "text", x |-> x, y |-> y,
                   text |-> timestamp, fill |-> FontColor]>>
    ELSE <<>>

\* What one call draws, and the name it saves under.
gen_timestamp_image(timestamp, arc_fraction, file_name) ==
    [timestamp |-> timestamp,
     arc_fraction |-> arc_fraction,
     file_name |-> file_name,
     draws |-> RingDraws(enable_ring, arc_fraction, shadow_color,
                         ShadowOffset(font.size), width, height,
                         Val(ring_height), ring_thickness, ring_color),
     texts |-> TextDraws(timestamp)]

\* The frame variable before the first call.
NoFrame ==
    [timestamp |-> <<>>, arc_fraction |-> [num |-> 0, den |-> 1],
     file_name |-> <<>>,
     draws |-> <<>>, texts |-> <<>>]

-----------------------------------------------------------------------------
(* main(): the frame loop (lines 368-404).                                 *)

\* A faulty variant of Format: the --no-zeroes flag is ignored.
Format_IgnoresFlag(n, z) == IF n >= ZeroPadMinutes THEN "%02d:%02d" ELSE "%d:%02d"

\* lines 368-370
Format(n, z) == IF n >= ZeroPadMinutes /\ z THEN "%02d:%02d" ELSE "%d:%02d"

\* line 376: format % (minute, second)
Timestamp(fmt, m, sec) ==
    (IF fmt = "%02d:%02d" THEN PadZero(2, m) ELSE Str(m))
    \o <<":">> \o PadZero(2, sec)

\* A faulty variant of FilenameFmt: the index is padded one digit short.
FilenameFmt_OneShort(n) == Len(Str(n)) - 1

\* line 372: the width in "%0<width>d-countdown-%s.png"
FilenameFmt(n) == Len(Str(n))

\* line 377: filename_fmt % (index, timestamp.replace(":", "_"))
Filename(w, i, ts) ==
    PadZero(w, i)
    \o <<"-", "c", "o", "u", "n", "t", "d", "o", "w", "n", "-">>
    \o Replace(ts, ":", "_")
    \o <<".", "p", "n", "g">>

\* A faulty variant of ArcFraction: the elapsed part is index / num_images, so the
\* first frame shows a full ring.
ArcFraction_FromIndex(i, n) == [num |-> n - i, den |-> n]

\* lines 378-380: 1.0 - ((index + 1) / num_images)
ArcFraction(i, n) == [num |-> n - (i + 1), den |-> n]

\* line 404
NextIndex(i) == i + 1

\* A faulty variant of NextIteration: the seconds restart at 60 instead of 59.
NextIteration_FromSixty(m, sec) ==
    IF sec > 0 THEN <<m, sec - 1>>
    ELSE IF m > 0 THEN <<m - 1, SecondsPerMinute>>
    ELSE <<>>

\* lines 374-375: the pair after (m, sec) in the nested ranges, <<>> at the end
NextIteration(m, sec) ==
    IF sec > 0 THEN <<m, sec - 1>>
    ELSE IF m > 0 THEN <<m - 1, SecondsPerMinute - 1>>
    ELSE <<>>

\* lines 368-375: the loop's locals are set; range(num_minutes - 1, -1, -1)
\* is empty when num_minutes < 1
SetupLoop ==
    /\ pc = "setup"
    /\ format' = Format(num_minutes, zeroes)
    /\ num_images' = num_minutes * SecondsPerMinute
    /\ filename_fmt' = FilenameFmt(num_minutes * SecondsPerMinute)
    /\ index' = 0
    /\ IF num_minutes - 1 >= 0
       THEN /\ minute' = num_minutes - 1
            /\ second' = SecondsPerMinute - 1
            /\ pc' = "loop"
       ELSE /\ pc' = "done"
            /\ UNCHANGED <<minute, second>>
    /\ UNCHANGED <<optVars, ringVars, outVars, colorVars>>

\* The call of one iteration (lines 376-401).
ThisFrame ==
    LET timestamp == Timestamp(format, minute, second)
    IN  gen_timestamp_image(timestamp, ArcFraction(index, num_images),
                            Filename(filename_fmt, index, timestamp))

\* lines 376-404: one iteration whose img.save succeeds
RenderFrame ==
    /\ pc = "loop"
    /\ frame' = ThisFrame
    /\ calls' = calls + 1
    /\ disk' = Append(disk, ThisFrame.file_name)
    /\ index' = NextIndex(index)
    /\ LET nxt == NextIteration(minute, second) IN
        IF nxt = <<>>
        THEN pc' = "done" /\ UNCHANGED <<minute, second>>
        ELSE pc' = "loop" /\ minute' = nxt[1] /\ second' = nxt[2]
    /\ UNCHANGED <<optVars, ringVars, format, num_images, filename_fmt, colorVars>>

\* A faulty variant of OnSaveError: the exception is swallowed and the loop goes on.
OnSaveError_Swallowed == "loop"

\* lines 383-401: nothing around the call catches what img.save raises, so
\* the exception ends main()
OnSaveError == "io_error"

\* lines 376-401 and 198: one iteration whose img.save raises
SaveFails ==
    /\ pc = "loop"
    /\ frame' = ThisFrame
    /\ calls' = calls + 1
    /\ pc' = OnSaveError
    /\ UNCHANGED <<optVars, ringVars, loopVars, disk, colorVars>>

Next ==
    \/ RejectMinutes
    \/ AcceptMinutes
    \/ RejectThickness
    \/ ResolveRing
    \/ RejectModes
    \/ AcceptModes
    \/ LoadFont
    \/ LoadFontFails
    \/ SetupLoop
    \/ RenderFrame
    \/ SaveFails

-----------------------------------------------------------------------------
(* The command lines the checks start from.                                *)

Red == <<255, 0, 0, 255>>
Black == <<0, 0, 0, 255>>

Positions == {"tl", "t", "tr", "l", "c", "r", "bl", "b", "br"}

\* The state after option parsing (lines 239-322) for one command line.
InitWith(minutes, zs, rings, canvases, positions, baselines, fonts) ==
    /\ num_minutes \in minutes
    /\ zeroes \in zs
    /\ \E r \in rings :
        /\ enable_ring = r.enable_ring
        /\ disable_text = r.disable_text
        /\ ring_height = r.ring_height
        /\ ring_thickness = r.ring_thickness
        /\ ring_color = r.ring_color
        /\ shadow_color = r.shadow_color
        /\ argv = r
    /\ \E c \in canvases : width = c[1] /\ height = c[2]
    /\ position \in positions
    /\ baseline \in baselines
    /\ font \in fonts
    /\ format = "%d:%02d"
    /\ num_images = 0
    /\ filename_fmt = 0
    /\ index = 0
    /\ minute = 0
    /\ second = 0
    /\ frame = NoFrame
    /\ calls = 0
    /\ disk = <<>>

Unset == [state |-> "unset", value |-> <<>>]

\* main() is about to read its positional argument; no colour is being parsed.
AtArgs == pc = "args" /\ color = <<>> /\ rgba = Unset

Ring(er, dt, rh, rt, rc, sc) ==
    [enable_ring |-> er, disable_text |-> dt, ring_height |-> rh,
     ring_thickness |-> rt, ring_color |-> rc, shadow_color |-> sc]

PlainFont == [size |-> 100, advance |-> 2, height |-> 4]

\* ---- the countdown: many values of num_minutes, few configurations
RunMinutes ==
    ((0 - MaxNegMinutes)..MaxSmallMinutes)
    \cup {ZeroPadMinutes - 1, ZeroPadMinutes, ZeroPadMinutes + 1} \cup {MaxNumMinutes + 1}

RunRings ==
    { Ring(FALSE, FALSE, None, None, None, None),
      Ring(TRUE, FALSE, None, Some(1), None, Some(Black)),
      Ring(TRUE, TRUE, Some(MaxRing), Some(MaxRing), None, None),
      Ring(FALSE, TRUE, None, None, None, None) }

Init ==
    /\ InitWith(RunMinutes, BOOLEAN, RunRings, {<<40, 20>>}, {"c"}, {0}, {PlainFont})
    /\ AtArgs

Spec == Init /\ [][Next]_vars

\* ---- the ring: one minute, every combination of the ring options
Sizes == {None} \cup {Some(v) : v \in (0 - MinRing)..MaxRing}

AllRings ==
    { Ring(er, dt, rh, rt, rc, sc) :
        er \in BOOLEAN, dt \in BOOLEAN, rh \in Sizes, rt \in Sizes,
        rc \in {None, Some(Red)}, sc \in {None, Some(Black)} }

InitRing ==
    /\ InitWith({0, 1, MaxNumMinutes + 1}, {TRUE}, AllRings, {<<10, 8>>}, {"c"}, {0},
                {PlainFont})
    /\ AtArgs

SpecRing == InitRing /\ [][Next]_vars

\* ---- the text layout: one minute, every anchor, canvases and fonts of
\*      several proportions
Canvases == {<<40, 20>>, <<20, 40>>, <<20, 20>>}

Fonts == { [size |-> 100, advance |-> a, height |-> h] :
             a \in {1, 5, 12}, h \in {4, 20, 50} }

InitLayout ==
    /\ AtArgs
    /\ InitWith({1, MaxNumMinutes + 1}, {TRUE},
             { Ring(FALSE, FALSE, None, None, None, None),
               Ring(FALSE, FALSE, None, None, None, Some(Black)),
               Ring(TRUE, TRUE, Some(MaxRing), Some(MaxRing), None, None),
               Ring(FALSE, TRUE, None, None, None, None) },
             Canvases, Positions, (0 - MaxBaseline)..MaxBaseline, Fonts)

SpecLayout == InitLayout /\ [][Next]_vars

\* ---- the colour parser alone
HexSample == {"0", "b", "F"}

\* The strings of at most n sample digits.
Bodies(n) == UNION { [1..k -> HexSample] : k \in 0..n }

\* Those strings, after nothing, "#", "##" or a letter that is no digit, and
\* before nothing, a newline, such a letter or two newlines.
ColorInputs(n) ==
    { p \o b \o t : p \in {<<>>, <<"#">>, <<"#", "#">>, <<"g">>},
                    b \in Bodies(n),
                    t \in {<<>>, <<"\n">>, <<"g">>, <<"\n", "\n">>} }

InitColor ==
    /\ InitWith({1}, {TRUE}, {Ring(FALSE, FALSE, None, None, None, None)},
                {<<40, 20>>}, {"c"}, {0}, {PlainFont})
    /\ pc = "options"
    /\ color \in ColorInputs(MaxDigits)
    /\ rgba = Unset

NextColor == ParseColor

SpecColor == InitColor /\ [][NextColor]_vars

-----------------------------------------------------------------------------
(* Reading back what the program wrote: used only to state the properties. *)

IsDigit(c) == \E i \in 1..10 : Digits[i] = c
DigitVal(c) == (CHOOSE i \in 1..10 : Digits[i] = c) - 1

RECURSIVE ParseNat(_)
ParseNat(s) == IF Len(s) = 0 THEN 0
               ELSE 10 * ParseNat(SubSeq(s, 1, Len(s) - 1)) + DigitVal(s[Len(s)])

AllDigits(s) == Len(s) > 0 /\ \A i \in 1..Len(s) : IsDigit(s[i])

\* The position of the first c in s (0 when there is none).
IndexOf(s, c) == IF \E i \in 1..Len(s) : s[i] = c
                 THEN CHOOSE i \in 1..Len(s) : s[i] = c /\ \A j \in 1..(i - 1) : s[j] # c
                 ELSE 0

MinutePart(ts) == SubSeq(ts, 1, IndexOf(ts, ":") - 1)
SecondPart(ts) == SubSeq(ts, IndexOf(ts, ":") + 1, Len(ts))

\* The characters of a file name, in ASCII order.
CharOrder == <<"-", ".", "0", "1", "2", "3", "4", "5", "6", "7", "8", "9", ":",
               "_", "c", "d", "g", "n", "o", "p", "t", "u", "w">>
Rank(c) == CHOOSE i \in 1..Len(CharOrder) : CharOrder[i] = c

RECURSIVE LexLessFrom(_, _, _)
LexLessFrom(a, b, k) ==
    IF k > Len(a) THEN k <= Len(b)
    ELSE IF k > Len(b) THEN FALSE
    ELSE IF a[k] = b[k] THEN LexLessFrom(a, b, k + 1)
    ELSE Rank(a[k]) < Rank(b[k])

\* a sorts strictly before b
LexLess(a, b) == LexLessFrom(a, b, 1)

ValidMinutes == 1..MaxNumMinutes
Total == SecondsPerMinute * num_minutes

\* The zero-based position in the sequence of the frame last handed to the
\* composer.
FrameNo == calls - 1

-----------------------------------------------------------------------------
(* C1: for num_minutes N in 1..60 a completed run renders exactly 60*N      *)
(* frames; the frame at index i shows minute N-1 - (i div 60) and second   *)
(* 59 - (i mod 60), so the first is (N-1, 59) and the last (0, 0); from    *)
(* one frame to the next the (minute, second) pair strictly decreases, the *)
(* second going down by one or rolling over from 0 to 59 with the minute   *)
(* going down by one.                                                      *)

FrameMinute == ParseNat(MinutePart(frame.timestamp))
FrameSecond == ParseNat(SecondPart(frame.timestamp))

C1_FrameAtIndex ==
    /\ (calls > 0 /\ num_minutes \in ValidMinutes) =>
        /\ AllDigits(MinutePart(frame.timestamp))
        /\ AllDigits(SecondPart(frame.timestamp))
        /\ FrameMinute = num_minutes - 1 - (FrameNo \div 60)
        /\ FrameSecond = 59 - (FrameNo % 60)
        /\ calls <= 60 * num_minutes
        /\ calls = 1 => FrameMinute = num_minutes - 1 /\ FrameSecond = 59
    /\ (pc = "done" /\ num_minutes \in ValidMinutes) =>
        /\ calls = 60 * num_minutes
        /\ Len(disk) = 60 * num_minutes
        /\ FrameMinute = 0 /\ FrameSecond = 0

C1_NextFrame ==
    (calls > 0 /\ calls' = calls + 1) =>
        LET m == FrameMinute
            sec == FrameSecond
            m2 == ParseNat(MinutePart(frame'.timestamp))
            sec2 == ParseNat(SecondPart(frame'.timestamp))
        IN  /\ m2 < m \/ (m2 = m /\ sec2 < sec)
            /\ sec > 0 => m2 = m /\ sec2 = sec - 1
            /\ sec = 0 => m2 = m - 1 /\ sec2 = 59

C1_Countdown == [](C1_FrameAtIndex) /\ [][C1_NextFrame]_vars

C1_Witness ==
    /\ pc = "done"
    /\ num_minutes = ZeroPadMinutes
    /\ calls = 600
    /\ Len(disk) = 600
    /\ frame.timestamp = <<"0", "0", ":", "0", "0">>

-----------------------------------------------------------------------------
(* C2: with total = 60*N, the arc fraction of the frame at index i is      *)
(* 1 - (i+1)/total: 1 - 1/total on the first frame, below 1 on every       *)
(* frame, 0 on the last frame and on no other, and strictly smaller on     *)
(* each frame than on the one before.                                      *)

C2_ArcAtIndex ==
    (calls > 0 /\ num_minutes \in ValidMinutes) =>
        LET a == frame.arc_fraction IN
        /\ a.den > 0
        /\ a.num * Total = (Total - (FrameNo + 1)) * a.den
        /\ a.num < a.den
        /\ a.num >= 0
        /\ a.num = 0 <=> FrameNo = Total - 1
        /\ calls = 1 => a.num * Total = (Total - 1) * a.den

C2_ArcDecreases ==
    (calls > 0 /\ calls' = calls + 1) =>
        frame'.arc_fraction.num * frame.arc_fraction.den
            < frame.arc_fraction.num * frame'.arc_fraction.den

C2_ArcFraction == [](C2_ArcAtIndex) /\ [][C2_ArcDecreases]_vars

C2_Witness ==
    /\ pc = "done"
    /\ num_minutes = MaxSmallMinutes
    /\ calls = Total
    /\ frame.arc_fraction.num = 0

-----------------------------------------------------------------------------
(* C3: the file name of the frame at index i is i zero-padded to           *)
(* len(str(60*N)) digits, then "-countdown-", then the timestamp with ":"  *)
(* replaced by "_", then ".png"; the index starts at 0 and goes up by one  *)
(* per frame, so the names of a run are pairwise distinct and sort in the  *)
(* order they were generated.                                              *)

CountdownLiteral == <<"-", "c", "o", "u", "n", "t", "d", "o", "w", "n", "-">>
PngLiteral == <<".", "p", "n", "g">>

\* The number of decimal digits of n > 0.
RECURSIVE NumDigits(_)
NumDigits(n) == IF n < 10 THEN 1 ELSE 1 + NumDigits(n \div 10)

C3_NameOfFrame ==
    LET w == NumDigits(Total)
        f == frame.file_name
        ts == frame.timestamp
        mid == SubSeq(f, w + 12, Len(f) - 4)
    IN  /\ Len(f) = w + 11 + Len(ts) + 4
        /\ AllDigits(SubSeq(f, 1, w))
        /\ ParseNat(SubSeq(f, 1, w)) = FrameNo
        /\ SubSeq(f, w + 1, w + 11) = CountdownLiteral
        /\ Len(mid) = Len(ts)
        /\ \A k \in 1..Len(ts) : mid[k] = (IF ts[k] = ":" THEN "_" ELSE ts[k])
        /\ SubSeq(f, Len(f) - 3, Len(f)) = PngLiteral

C3_Filenames ==
    num_minutes \in ValidMinutes =>
        /\ calls > 0 => C3_NameOfFrame
        /\ Len(disk) > 0 =>
            /\ disk[Len(disk)][NumDigits(Total) + 1] = "-"
            /\ ParseNat(SubSeq(disk[Len(disk)], 1, NumDigits(Total))) = Len(disk) - 1
        /\ \A j \in 1..(Len(disk) - 1) : disk[j] # disk[Len(disk)]
        /\ \A j \in 1..(Len(disk) - 1) : LexLess(disk[j], disk[j + 1])
        /\ pc = "done" =>
            /\ Len(disk) = Total
            /\ Cardinality({disk[j] : j \in 1..Len(disk)}) = Len(disk)

C3_Witness ==
    /\ pc = "done"
    /\ num_minutes = ZeroPadMinutes + 1
    /\ Len(disk) = 660
    /\ disk[1] = <<"0", "0", "0">> \o CountdownLiteral \o <<"1", "0", "_", "5", "9">> \o PngLiteral
    /\ disk[660] = <<"6", "5", "9">> \o CountdownLiteral \o <<"0", "_", "0", "0">> \o PngLiteral

-----------------------------------------------------------------------------
(* C4: in every timestamp the second has exactly 2 digits, and the minute  *)
(* is zero-padded to 2 digits if and only if num_minutes >= 10 and leading *)
(* zeroes are enabled; otherwise no minute of the run shows a leading      *)
(* zero.                                                                   *)

C4_Timestamps ==
    (calls > 0 /\ num_minutes \in ValidMinutes) =>
        LET ts == frame.timestamp
            m == MinutePart(ts)
            sec == SecondPart(ts)
        IN  /\ IndexOf(ts, ":") > 0
            /\ AllDigits(sec) /\ Len(sec) = 2
            /\ AllDigits(m)
            /\ (num_minutes >= 10 /\ zeroes) => Len(m) = 2
            /\ ~(num_minutes >= 10 /\ zeroes) => (Len(m) = 1 \/ m[1] # "0")
            /\ (Len(m) = 2 /\ m[1] = "0") <=> (num_minutes >= 10 /\ zeroes /\ ParseNat(m) < 10)

C4_Witness ==
    /\ num_minutes = ZeroPadMinutes
    /\ zeroes
    /\ frame.timestamp = <<"0", "9", ":", "5", "9">>
    /\ calls = 1

-----------------------------------------------------------------------------
(* C8: frames are rendered and saved one at a time in increasing index     *)
(* order; when saving frame k fails the run stops at once, nothing after k *)
(* is rendered or written and the files of frames 0..k-1 stay; when no     *)
(* save fails all 60*N frames are written; the files written are always a  *)
(* prefix 0..j-1 of the sequence.                                          *)

C8_Prefix ==
    /\ \A j \in 1..Len(disk) : ParseNat(SubSeq(disk[j], 1, filename_fmt)) = j - 1
    /\ pc = "io_error" => calls = Len(disk) + 1
    /\ pc # "io_error" => calls = Len(disk)
    /\ (pc = "done" /\ num_minutes \in ValidMinutes) => Len(disk) = Total
    /\ pc \in {"usage_error", "args", "ring", "modes", "font", "setup"} => disk = <<>>

C8_Step ==
    /\ Len(disk') \in {Len(disk), Len(disk) + 1}
    /\ SubSeq(disk', 1, Len(disk)) = disk
    /\ calls' \in {calls, calls + 1}
    /\ Len(disk') = Len(disk) + 1 => disk'[Len(disk')] = frame'.file_name
    /\ pc = "io_error" => (calls' = calls /\ disk' = disk /\ pc' = pc)

C8_FailFast == [](C8_Prefix) /\ [][C8_Step]_vars

C8_Witness ==
    /\ pc = "io_error"
    /\ num_minutes = 1
    /\ Len(disk) = 3
    /\ calls = 4
    /\ frame.file_name = <<"0", "3">> \o CountdownLiteral \o <<"0", "_", "5", "6">> \o PngLiteral

-----------------------------------------------------------------------------
(* C5: color_hex_to_tuple returns (R, G, B, A) for every string made of an *)
(* optional "#" and exactly 6 or 8 hexadecimal digits, A being 255 for 6   *)
(* digits, and fails for every other string.                               *)

\* An optional "#" followed by exactly 6 or 8 hexadecimal digits.
WellFormedColor(c) ==
    LET body == IF Len(c) > 0 /\ c[1] = "#" THEN Tail(c) ELSE c
    IN  Len(body) \in {6, 8} /\ \A i \in 1..Len(body) : IsHex(body[i])

ExpectedColor(c) ==
    LET body == IF c[1] = "#" THEN Tail(c) ELSE c
    IN  <<HexPair(body, 0), HexPair(body, 2), HexPair(body, 4),
          IF Len(body) = 8 THEN HexPair(body, 6) ELSE 255>>

C5_ParsesOrFails ==
    rgba.state # "unset" =>
        IF WellFormedColor(color)
        THEN rgba.state = "returned" /\ rgba.value = ExpectedColor(color)
        ELSE rgba.state = "raised"

\* C5, what does hold: the strings accepted are the well-formed ones and the
\* well-formed ones followed by one newline.
C5_UpToNewline ==
    rgba.state # "unset" =>
        LET core == IF Len(color) > 0 /\ color[Len(color)] = "\n"
                       /\ ~WellFormedColor(color)
                    THEN SubSeq(color, 1, Len(color) - 1) ELSE color
        IN  IF WellFormedColor(core)
            THEN rgba.state = "returned" /\ rgba.value = ExpectedColor(core)
            ELSE rgba.state = "raised"

-----------------------------------------------------------------------------
(* C6: no frame is rendered under an invalid configuration: in the frame   *)
(* loop the ring is enabled or the text is not disabled, and an enabled    *)
(* ring has 2 * thickness < diameter; a configuration with the text        *)
(* disabled and no ring, or with an enabled ring whose thickness is at     *)
(* least half its diameter, ends in a usage error with no frame written.   *)

BeforeRingCheck == pc \in {"args", "ring"}
BeforeModesCheck == pc \in {"args", "ring", "modes"}
Rejected == pc = "usage_error" /\ calls = 0 /\ disk = <<>>

RingGiven ==
    \/ argv.enable_ring
    \/ argv.ring_height # None
    \/ argv.ring_thickness # None
    \/ argv.ring_color # None

C6_ValidConfig ==
    /\ (pc \in {"loop", "done", "io_error"} \/ calls > 0 \/ disk # <<>>) =>
        /\ enable_ring \/ ~disable_text
        /\ enable_ring =>
            /\ ring_thickness # None /\ ring_height # None
            /\ 2 * Val(ring_thickness) < Val(ring_height)
    /\ (~BeforeModesCheck /\ ~enable_ring /\ disable_text) => Rejected
    /\ (~BeforeRingCheck /\ enable_ring /\ ring_thickness # None /\ ring_height # None
            /\ 2 * Val(ring_thickness) >= Val(ring_height)) => Rejected
    /\ (~BeforeRingCheck /\ enable_ring /\ num_minutes <= MaxNumMinutes)
        => (ring_thickness # None /\ ring_height # None)
    /\ (~BeforeModesCheck /\ argv.disable_text /\ ~RingGiven) => Rejected
    /\ (~BeforeRingCheck /\ argv.ring_height # None /\ argv.ring_thickness # None
            /\ 2 * Val(argv.ring_thickness) >= Val(argv.ring_height)) => Rejected

C6_Witness ==
    /\ Rejected
    /\ num_minutes = 1
    /\ argv.ring_height = Some(MaxRing)
    /\ argv.ring_thickness = Some(MaxRing \div 2)
    /\ 2 * Val(ring_thickness) = Val(ring_height)
    /\ ~argv.disable_text

-----------------------------------------------------------------------------
(* C7: num_minutes is accepted only in 1..60; any other integer is         *)
(* rejected with an error before the loop.                                 *)

C7_OnlyOneToSixty ==
    pc \in {"setup", "loop", "done", "io_error"} => num_minutes \in ValidMinutes

-----------------------------------------------------------------------------
(* C9: pie slices are drawn for a frame if and only if the ring is enabled *)
(* and the frame's arc fraction is above 0: with the ring enabled every    *)
(* frame but the last draws the ring slice from 270 to                     *)
(* 270 + 360 * arc_fraction degrees and the last frame draws no slice at   *)
(* all; with the ring not enabled no frame draws a slice.                  *)

C9_PieSlices ==
    (calls > 0 /\ num_minutes \in ValidMinutes) =>
        LET d == frame.draws
            remaining == Total - calls      \* arc_fraction = remaining / Total
        IN  /\ \A k \in 1..Len(d) :
                /\ d[k].op = "pieslice"
                /\ d[k].start = 270
                /\ d[k].end.den > 0
                /\ d[k].end.num * Total = (270 * Total + 360 * remaining) * d[k].end.den
            /\ Len(d) > 0 <=> (enable_ring /\ remaining > 0)
            /\ (enable_ring /\ calls < Total) =>
                \E k \in 1..Len(d) : d[k].fill = Val(ring_color)
            /\ calls = Total => d = <<>>
            /\ ~enable_ring => d = <<>>

C9_Witness ==
    /\ pc = "done"
    /\ num_minutes = 1
    /\ enable_ring
    /\ shadow_color # None
    /\ Val(ring_height) > 2 * Val(ring_thickness)
    /\ calls = 60
    /\ frame.draws = <<>>

-----------------------------------------------------------------------------
(* C10: with the text enabled, the origin of the primary timestamp text    *)
(* has x >= 0 and y >= 0, for every canvas, anchor, text size and signed   *)
(* baseline.                                                               *)

\* The primary text is the last text drawn (the shadow goes first).
Primary == frame.texts[Len(frame.texts)]

C10_OriginOnCanvas ==
    (calls > 0 /\ ~disable_text) =>
        /\ Len(frame.texts) > 0
        /\ Primary.x >= 0
        /\ Primary.y >= 0

\* C10 as amended: the origin of the primary text has x >= 0 and
\* y >= -baseline (the clamp comes before the baseline adjustment), so
\* y >= 0 whenever baseline <= 0.
C10_OriginUpToBaseline ==
    (calls > 0 /\ ~disable_text) =>
        /\ Len(frame.texts) > 0
        /\ Primary.text = frame.timestamp
        /\ Primary.x >= 0
        /\ Primary.y + 20 * baseline >= 0
        /\ baseline <= 0 => Primary.y >= 0

C10_Witness ==
    /\ calls > 0
    /\ ~disable_text
    /\ baseline = MaxBaseline
    /\ position = "b"
    /\ font.height > height
    /\ Primary.x > 0
    /\ Primary.y = 0 - 20 * MaxBaseline

====
